---- MODULE Spec2Model ----
(***************************************************************************)
(* The history upload protocol of the Chromium history chat extension:     *)
(* chatWithBackend (frontend/extension/background/service_worker.js) opens  *)
(* one WebSocket per exchange, slices the converted history into batches   *)
(* of BATCH_SIZE records, sends them gated by acknowledgments, signals      *)
(* history_upload_complete and sends the chat request once the server has  *)
(* acknowledged completion.  The WebSocket server is not part of the       *)
(* sources at hand; it is modelled from its specified behaviour.           *)
(***************************************************************************)
EXTENDS Integers, Sequences, FiniteSets, TLC

VARIABLES
    history,   \* the converted history handed to the Promise executor
    cl,        \* the session variables of one chatWithBackend call
    c2s,       \* messages in flight from the client to the server (FIFO)
    s2c,       \* messages in flight from the server to the client (FIFO)
    srv,       \* the server's per-connection session
    log,       \* history: the messages the client put on the wire, in order
    foreign,   \* number of messages put on the wire by a client other than cl
    fh,        \* one fetchHistory call: its parameters, source and progress
    ss,        \* the session variables of two concurrent chatWithBackend calls
    rl,        \* the backend's RateLimiter and the goroutines calling it
    ch         \* one chatWithHistory call: its parameters, mode and effects

vars == <<history, cl, c2s, s2c, srv, log, foreign, fh, ss, rl, ch>>

(***************************************************************************)
(* Bounds of the model and constants of the program.                       *)
(***************************************************************************)
MaxBatches == 3

MaxRecords == 1600

MaxForeign == 1
MaxAccBatches == 11

MaxReturn == 2

MaxStore == 3
MaxRaw == 1
MaxEvents == 2
MaxRequests == 7
MaxGoroutines == 2

BATCH_SIZE == 500

MAX_HISTORY_ENTRIES == 100000

HISTORY_MEMORY_WARNING_THRESHOLD == 50000

(* The record-set sizes a session is started with: at and just above every *)
(* batch boundary, up to MaxBatches batches.                               *)
Sizes ==
    { k * BATCH_SIZE + r : k \in 0..(MaxBatches - 1), r \in {0, 1} }

(* A record set of n records; a record is identified by its position in    *)
(* the enumeration.                                                        *)
RecordSet(n) ==
    [i \in 1..n |-> i]

Min(a, b) ==
    IF a <= b THEN a ELSE b

(* Math.ceil(n / d) for n >= 0, d > 0 *)
Ceil(n, d) ==
    (n + d - 1) \div d

(***************************************************************************)
(* Prepare batches: the loop of chatWithBackend that slices history.       *)
(***************************************************************************)
RECURSIVE PrepareLoop(_, _, _, _)
PrepareLoop(h, i, totalBatches, acc) ==
    IF i < Len(h)
    THEN PrepareLoop(h, i + BATCH_SIZE, totalBatches,
             Append(acc, [type         |-> "history_batch",
                          history      |-> SubSeq(h, i + 1, Min(i + BATCH_SIZE, Len(h))),
                          batchNumber  |-> (i \div BATCH_SIZE) + 1,
                          totalBatches |-> totalBatches]))
    ELSE acc

(* Mutant: Math.floor instead of Math.ceil for totalBatches.               *)
PrepareBatchesFloor(h) ==
    IF Len(h) > 0
    THEN PrepareLoop(h, 0, Len(h) \div BATCH_SIZE, <<>>)
    ELSE <<>>

(* Mutant: slice(i + 1, i + BATCH_SIZE), the first record of every batch   *)
(* is lost.                                                                *)
PrepareBatchesDropFirst(h) ==
    IF Len(h) > 0
    THEN LET all == PrepareLoop(h, 0, Ceil(Len(h), BATCH_SIZE), <<>>)
         IN  [k \in 1..Len(all) |-> [all[k] EXCEPT !.history = Tail(@)]]
    ELSE <<>>

(* Mutant: slice(i, i + BATCH_SIZE + 1), every batch but the last repeats  *)
(* the first record of the next one.                                       *)
PrepareBatchesOverlap(h) ==
    IF Len(h) > 0
    THEN LET all == PrepareLoop(h, 0, Ceil(Len(h), BATCH_SIZE), <<>>)
         IN  [k \in 1..Len(all) |->
                 [all[k] EXCEPT !.history =
                     SubSeq(h, (k - 1) * BATCH_SIZE + 1,
                            Min(k * BATCH_SIZE + 1, Len(h)))]]
    ELSE <<>>

PrepareBatches(h) ==
    IF Len(h) > 0
    THEN PrepareLoop(h, 0, Ceil(Len(h), BATCH_SIZE), <<>>)
    ELSE <<>>

(***************************************************************************)
(* The client session: the variables of the Promise executor.              *)
(***************************************************************************)
NewSession ==
    [ phase                             |-> "created",
      wsState                           |-> "NONE",
      isResolved                        |-> FALSE,
      isConnected                       |-> FALSE,
      batchesToSend                     |-> <<>>,
      currentBatchIndex                 |-> 0,
      totalBatchesAcknowledged          |-> 0,
      historyUploadCompleteSent         |-> FALSE,
      historyUploadCompleteAcknowledged |-> FALSE,
      chatMessageSent                   |-> FALSE,
      promise                           |-> "pending",
      promiseValue                      |-> "",
      timeout                           |-> FALSE,
      graceTimer                        |-> FALSE,
      nextTimers                        |-> 0,
      retryTimers                       |-> 0,
      receivedSum                       |-> 0,
      retriesRun                        |-> 0,
      outbox                            |-> <<>> ]

(* ws.send: the browser transmits in state OPEN and discards silently in   *)
(* CLOSING and CLOSED.                                                     *)
wsSend(c, m) ==
    IF c.wsState = "OPEN" THEN [c EXCEPT !.outbox = Append(@, m)] ELSE c

(* ws.close() *)
wsClose(c) ==
    IF c.wsState \in {"CONNECTING", "OPEN"} THEN [c EXCEPT !.wsState = "CLOSING"] ELSE c

(* A promise settles once: later resolve/reject calls have no effect.      *)
reject(c, reason) ==
    IF c.promise = "pending"
    THEN [c EXCEPT !.promise = "rejected", !.promiseValue = reason]
    ELSE c

resolve(c, value) ==
    IF c.promise = "pending"
    THEN [c EXCEPT !.promise = "resolved", !.promiseValue = value]
    ELSE c

UploadCompleteMessage ==
    [type |-> "history_upload_complete"]

ChatMessage ==
    [type |-> "chat"]

(* Mutant: currentBatchIndex++ is missing, the same batch is sent again.   *)
sendNextBatchNoAdvance(c) ==
    IF c.currentBatchIndex >= Len(c.batchesToSend)
    THEN c
    ELSE IF c.wsState # "OPEN"
    THEN [c EXCEPT !.retryTimers = @ + 1]
    ELSE wsSend(c, c.batchesToSend[c.currentBatchIndex + 1])

sendNextBatch(c) ==
    IF c.currentBatchIndex >= Len(c.batchesToSend)
    THEN c
    ELSE IF c.wsState # "OPEN"
    THEN [c EXCEPT !.retryTimers = @ + 1]
    ELSE [wsSend(c, c.batchesToSend[c.currentBatchIndex + 1])
             EXCEPT !.currentBatchIndex = @ + 1]

(* Mutant: a retry that finds the socket still not open gives up silently. *)
retryCallbackNoReject(c) ==
    IF c.wsState = "OPEN" THEN sendNextBatch(c) ELSE c

(* The callback of the 100 ms retry timer set by sendNextBatch.            *)
retryCallback(c) ==
    IF c.wsState = "OPEN"
    THEN sendNextBatch(c)
    ELSE reject(c, "WebSocket connection not ready for sending batches")

(* The callback of the session timeout.                                    *)
(* Mutant: the timeout only closes the socket.                             *)
timeoutCallbackNoReject(c) ==
    IF ~c.isResolved THEN wsClose(c) ELSE c

timeoutCallback(c) ==
    IF ~c.isResolved
    THEN reject(wsClose(c), "WebSocket connection timeout")
    ELSE c

(* ws.onopen: arms the 1 s grace timer.                                    *)
onopen(c) ==
    [c EXCEPT !.graceTimer = TRUE]

(* The callback of the grace timer.                                        *)
graceCallback(c) ==
    IF ~c.isConnected /\ Len(c.batchesToSend) > 0 /\ c.currentBatchIndex = 0
    THEN sendNextBatch([c EXCEPT !.isConnected = TRUE])
    ELSE c

(***************************************************************************)
(* ws.onmessage, one operator per branch on data.type.                     *)
(***************************************************************************)
(* Mutant: with no batches the welcome only marks the session connected;   *)
(* upload-complete waits for an acknowledgment that never comes.           *)
onConnectedNoEmpty(c) ==
    LET c1 == [c EXCEPT !.isConnected = TRUE]
    IN  IF Len(c1.batchesToSend) > 0 /\ c1.wsState = "OPEN"
        THEN sendNextBatch(c1)
        ELSE c1

onConnected(c) ==
    LET c1 == [c EXCEPT !.isConnected = TRUE]
    IN  IF Len(c1.batchesToSend) > 0
        THEN IF c1.wsState = "OPEN"
             THEN sendNextBatch(c1)
             ELSE reject(c1, "WebSocket not ready")
        ELSE IF ~c1.historyUploadCompleteSent
             THEN LET c2 == [c1 EXCEPT !.historyUploadCompleteSent = TRUE]
                  IN  IF c2.wsState = "OPEN"
                      THEN wsSend(c2, UploadCompleteMessage)
                      ELSE reject(c2, "WebSocket not ready")
             ELSE c1

(* Mutant: upload-complete is signalled on the first acknowledgment,       *)
(* whether or not every batch has been sent and acknowledged.              *)
onBatchAckNoGate(c, data) ==
    LET c1 == [c EXCEPT !.totalBatchesAcknowledged = @ + 1,
                        !.receivedSum = @ + data.received]
        allBatchesSent == c1.currentBatchIndex >= Len(c1.batchesToSend)
        c2 == IF ~allBatchesSent THEN [c1 EXCEPT !.nextTimers = @ + 1] ELSE c1
    IN  IF ~c2.historyUploadCompleteSent
        THEN wsSend([c2 EXCEPT !.historyUploadCompleteSent = TRUE], UploadCompleteMessage)
        ELSE c2

(* Mutant: upload-complete is signalled as soon as every batch has been    *)
(* sent, without waiting for the acknowledgments.                          *)
onBatchAckSentOnly(c, data) ==
    LET c1 == [c EXCEPT !.totalBatchesAcknowledged = @ + 1,
                        !.receivedSum = @ + data.received]
        allBatchesSent == c1.currentBatchIndex >= Len(c1.batchesToSend)
        c2 == IF ~allBatchesSent THEN [c1 EXCEPT !.nextTimers = @ + 1] ELSE c1
    IN  IF allBatchesSent /\ ~c2.historyUploadCompleteSent
        THEN wsSend([c2 EXCEPT !.historyUploadCompleteSent = TRUE], UploadCompleteMessage)
        ELSE c2

(* Mutant: no historyUploadCompleteSent guard.                             *)
onBatchAckUnflagged(c, data) ==
    LET c1 == [c EXCEPT !.totalBatchesAcknowledged = @ + 1,
                        !.receivedSum = @ + data.received]
        allBatchesSent == c1.currentBatchIndex >= Len(c1.batchesToSend)
        allBatchesAcknowledged == c1.totalBatchesAcknowledged >= Len(c1.batchesToSend)
        c2 == IF ~allBatchesSent THEN [c1 EXCEPT !.nextTimers = @ + 1] ELSE c1
    IN  IF allBatchesSent /\ allBatchesAcknowledged
        THEN wsSend([c2 EXCEPT !.historyUploadCompleteSent = TRUE], UploadCompleteMessage)
        ELSE c2

onBatchAck(c, data) ==
    LET c1 == [c EXCEPT !.totalBatchesAcknowledged = @ + 1,
                        !.receivedSum = @ + data.received]
        allBatchesSent == c1.currentBatchIndex >= Len(c1.batchesToSend)
        allBatchesAcknowledged == c1.totalBatchesAcknowledged >= Len(c1.batchesToSend)
        \* setTimeout(() => sendNextBatch(), 10)
        c2 == IF ~allBatchesSent THEN [c1 EXCEPT !.nextTimers = @ + 1] ELSE c1
    IN  IF allBatchesSent /\ allBatchesAcknowledged /\ ~c2.historyUploadCompleteSent
        THEN wsSend([c2 EXCEPT !.historyUploadCompleteSent = TRUE], UploadCompleteMessage)
        ELSE c2

(* Mutant: no chatMessageSent guard.                                       *)
onUploadCompleteAckUnguarded(c) ==
    wsSend([c EXCEPT !.historyUploadCompleteAcknowledged = TRUE,
                     !.chatMessageSent = TRUE], ChatMessage)

onUploadCompleteAck(c) ==
    LET c1 == [c EXCEPT !.historyUploadCompleteAcknowledged = TRUE]
    IN  IF ~c1.chatMessageSent
        THEN wsSend([c1 EXCEPT !.chatMessageSent = TRUE], ChatMessage)
        ELSE c1

(* Mutant: the reply resolves the promise and leaves the socket open.      *)
onReplyNoClose(c, data) ==
    LET c1 == [c EXCEPT !.timeout = FALSE]
    IN  IF ~c1.isResolved
        THEN resolve([c1 EXCEPT !.isResolved = TRUE], data.reply)
        ELSE c1

onReply(c, data) ==
    LET c1 == wsClose([c EXCEPT !.timeout = FALSE])
    IN  IF ~c1.isResolved
        THEN resolve([c1 EXCEPT !.isResolved = TRUE], data.reply)
        ELSE c1

(* Mutant: an error message rejects with the connection-error text.        *)
onErrorMessageGeneric(c, data) ==
    LET c1 == wsClose([c EXCEPT !.timeout = FALSE])
    IN  IF ~c1.isResolved
        THEN reject([c1 EXCEPT !.isResolved = TRUE], "WebSocket connection error")
        ELSE c1

onErrorMessage(c, data) ==
    LET c1 == wsClose([c EXCEPT !.timeout = FALSE])
    IN  IF ~c1.isResolved
        THEN reject([c1 EXCEPT !.isResolved = TRUE], data.error)
        ELSE c1

(* event.data that JSON.parse rejects: the handler's catch logs it.         *)
NotJSON ==
    [type |-> "not JSON", received |-> 0, total |-> 0, warning |-> FALSE,
     reply |-> "", error |-> ""]

(* Mutant: a message of an unrecognised type is taken for an error and     *)
(* ends the session.                                                       *)
onmessageStrict(c, data) ==
    IF data = NotJSON THEN c
    ELSE IF data.type = "connected" THEN onConnected(c)
    ELSE IF data.type = "history_batch_ack" THEN onBatchAck(c, data)
    ELSE IF data.type = "history_upload_complete_ack" THEN onUploadCompleteAck(c)
    ELSE IF data.type = "chat_queued" THEN c
    ELSE IF data.reply # "" THEN onReply(c, data)
    ELSE onErrorMessage(c, data)

onmessage(c, data) ==
    IF data = NotJSON THEN c
    ELSE IF data.type = "connected" THEN onConnected(c)
    ELSE IF data.type = "history_batch_ack" THEN onBatchAck(c, data)
    ELSE IF data.type = "history_upload_complete_ack" THEN onUploadCompleteAck(c)
    ELSE IF data.type = "chat_queued" THEN c
    ELSE IF data.reply # "" THEN onReply(c, data)
    ELSE IF data.error # "" THEN onErrorMessage(c, data)
    ELSE c

(* ws.onerror and ws.onclose *)
onerror(c) ==
    LET c1 == [c EXCEPT !.timeout = FALSE]
    IN  IF ~c1.isResolved
        THEN reject([c1 EXCEPT !.isResolved = TRUE], "WebSocket connection error")
        ELSE c1

(* Mutant: a close event only clears the timeout.                          *)
oncloseNoReject(c) ==
    [c EXCEPT !.timeout = FALSE]

onclose(c) ==
    LET c1 == [c EXCEPT !.timeout = FALSE]
    IN  IF ~c1.isResolved
        THEN reject([c1 EXCEPT !.isResolved = TRUE],
                    "WebSocket closed before receiving response")
        ELSE c1

(***************************************************************************)
(* The server's session (modelled from the protocol's specification): the  *)
(* accumulator and the completion coordinator.                             *)
(***************************************************************************)
NewServerSession ==
    [ conn            |-> "none",
      buffered        |-> 0,
      total           |-> 0,
      batchesIngested |-> 0,
      batchAcksSent   |-> 0,
      uploadComplete  |-> FALSE,
      completeAcks    |-> 0,
      chatsReceived   |-> 0,
      held            |-> 0,
      executing       |-> 0,
      started         |-> 0,
      queued          |-> 0,
      finished        |-> 0,
      outbox          |-> <<>> ]

ServerMessage(t) ==
    [type |-> t, received |-> 0, total |-> 0, warning |-> FALSE, reply |-> "", error |-> ""]

srvSend(s, m) ==
    [s EXCEPT !.outbox = Append(@, m)]

(* Mutant: the count stops at the hard cap.                                *)
ingestCappedTotal(s, batch) ==
    LET n  == Len(batch.history)
        s1 == [s EXCEPT !.buffered = Min(@ + n, MAX_HISTORY_ENTRIES),
                        !.total = Min(@ + n, MAX_HISTORY_ENTRIES),
                        !.batchesIngested = @ + 1,
                        !.batchAcksSent = @ + 1]
    IN  srvSend(s1, [ServerMessage("history_batch_ack") EXCEPT
                        !.received = n,
                        !.total = s1.total,
                        !.warning = s1.total > HISTORY_MEMORY_WARNING_THRESHOLD])

(* Mutant: the warning starts at the threshold itself.                     *)
ingestWarnAtThreshold(s, batch) ==
    LET n  == Len(batch.history)
        s1 == [s EXCEPT !.buffered = Min(@ + n, MAX_HISTORY_ENTRIES),
                        !.total = @ + n,
                        !.batchesIngested = @ + 1,
                        !.batchAcksSent = @ + 1]
    IN  srvSend(s1, [ServerMessage("history_batch_ack") EXCEPT
                        !.received = n,
                        !.total = s1.total,
                        !.warning = s1.total >= HISTORY_MEMORY_WARNING_THRESHOLD])

(* ingest(batch): append to the buffer up to the hard cap, count every     *)
(* record, warn above the threshold, acknowledge.                          *)
ingest(s, batch) ==
    LET n  == Len(batch.history)
        s1 == [s EXCEPT !.buffered = Min(@ + n, MAX_HISTORY_ENTRIES),
                        !.total = @ + n,
                        !.batchesIngested = @ + 1,
                        !.batchAcksSent = @ + 1]
    IN  srvSend(s1, [ServerMessage("history_batch_ack") EXCEPT
                        !.received = n,
                        !.total = s1.total,
                        !.warning = s1.total > HISTORY_MEMORY_WARNING_THRESHOLD])

(* Mutant: held chats stay held.                                           *)
completeNoRelease(s) ==
    srvSend([s EXCEPT !.uploadComplete = TRUE, !.completeAcks = @ + 1],
            ServerMessage("history_upload_complete_ack"))

(* history_upload_complete: acknowledge, and release every held chat.      *)
complete(s) ==
    srvSend([s EXCEPT !.uploadComplete = TRUE,
                      !.completeAcks = @ + 1,
                      !.executing = @ + s.held,
                      !.started = @ + s.held,
                      !.held = 0],
            ServerMessage("history_upload_complete_ack"))

(* Mutant: a chat is executed on arrival.                                  *)
chatUngated(s) ==
    [s EXCEPT !.chatsReceived = @ + 1, !.executing = @ + 1, !.started = @ + 1]

(* chat: executed when the upload is complete, held and answered with      *)
(* chat_queued otherwise.                                                  *)
chat(s) ==
    IF s.uploadComplete
    THEN [s EXCEPT !.chatsReceived = @ + 1, !.executing = @ + 1, !.started = @ + 1]
    ELSE srvSend([s EXCEPT !.chatsReceived = @ + 1, !.held = @ + 1, !.queued = @ + 1],
                 ServerMessage("chat_queued"))

receive(s, m) ==
    IF m.type = "history_batch" THEN ingest(s, m)
    ELSE IF m.type = "history_upload_complete" THEN complete(s)
    ELSE IF m.type = "chat" THEN chat(s)
    ELSE s

(***************************************************************************)
(* fetchHistory: the enumeration of the browser's history.                 *)
(***************************************************************************)
(* No fetchHistory call is under way.                                      *)
IdleFetch ==
    [pc |-> "idle"]

CHROME_API_LIMIT == 10000

DEFAULT_MAX_RESULTS == 100000

EXHAUSTED_BELOW == 5000

(* Date.now(), and a parameter that was not passed (undefined).            *)
Now == 20000

NoTime == -1

Max(a, b) ==
    IF a >= b THEN a ELSE b

(* A HistoryItem of chrome.history: a url (numbered) and its last visit.   *)
Item(u, t) ==
    [url |-> u, lastVisitTime |-> t]

(* preferences.historyRangeDays (default 365); a day is the time unit.     *)
historyRangeDays == 365

(* The time range fetchHistory works with, from its parameters.            *)
TimeRange(p) ==
    IF p.startTime # NoTime
    THEN [startTime |-> p.startTime,
          endTime |-> IF p.endTime # NoTime THEN p.endTime ELSE Now,
          shouldUseDateRange |-> TRUE]
    ELSE IF p.hasText
    THEN [startTime |-> Now - historyRangeDays,
          endTime |-> IF p.endTime # NoTime THEN p.endTime ELSE Now,
          shouldUseDateRange |-> TRUE]
    ELSE [startTime |-> 0, endTime |-> Now, shouldUseDateRange |-> FALSE]

(* maxResults || 100000 *)
TargetMaxResults(p) ==
    IF p.maxResults = 0 THEN DEFAULT_MAX_RESULTS ELSE p.maxResults

(* The query object handed to chrome.history.search.                       *)
SearchQuery(f, maxResults, startTime, endTime) ==
    [maxResults |-> maxResults,
     dated |-> f.shouldUseDateRange,
     startTime |-> IF f.shouldUseDateRange THEN startTime ELSE NoTime,
     endTime |-> IF f.shouldUseDateRange THEN endTime ELSE NoTime]

(* chrome.history.search on a browser whose history holds the urls 1..M,   *)
(* url k last visited at time k: the most recent first, within             *)
(* [startTime, endTime) if the query is dated, at most maxResults.         *)
Search(M, q) ==
    LET lo == IF q.dated THEN Max(1, q.startTime) ELSE 1
        hi == IF q.dated THEN Min(M, q.endTime - 1) ELSE M
        n  == Max(0, Min(q.maxResults, hi - lo + 1))
    IN  [j \in 1..n |-> Item(hi + 1 - j, hi + 1 - j)]

(* Results of a source that is only known to respect maxResults: any       *)
(* short sequence of items, urls repeated with other visit times included. *)
SmallItems ==
    { Item(u, t) : u \in {1, 2}, t \in {1, 7000} }

SmallResults(maxResults) ==
    UNION { [1..n -> SmallItems] : n \in 0..Min(MaxReturn, Max(0, maxResults)) }

(* What a call of chrome.history.search can come back with: lastError, or  *)
(* a result.                                                               *)
Failure ==
    [ok |-> FALSE, items |-> <<>>]

Results(source, q, callNo) ==
    IF source.kind = "store"
    THEN { [ok |-> TRUE, items |-> Search(source.M, q)] }
    ELSE IF source.kind = "bulk" /\ callNo = 1
    THEN { [ok |-> TRUE, items |-> Search(EXHAUSTED_BELOW, q)] }
    ELSE { [ok |-> TRUE, items |-> r] : r \in SmallResults(q.maxResults) }

Responses(source, q, callNo) ==
    Results(source, q, callNo) \cup {Failure}

(* urlMap mirrors allHistoryItems (one entry per url, the item stored for  *)
(* it), so it is read off the list.                                        *)
urlMapHas(all, url) ==
    \E j \in DOMAIN all : all[j].url = url

(* allHistoryItems.findIndex(h => h.url === item.url) *)
existingIndex(all, url) ==
    CHOOSE j \in DOMAIN all : all[j].url = url

(* Mutant: the first item seen for a url is kept.                          *)
addItemKeepFirst(all, item) ==
    IF ~urlMapHas(all, item.url) THEN Append(all, item) ELSE all

(* The body of "for (const item of batchItems)": add unique items, keep    *)
(* the most recent visit.                                                  *)
addItem(all, item) ==
    IF ~urlMapHas(all, item.url)
    THEN Append(all, item)
    ELSE IF all[existingIndex(all, item.url)].lastVisitTime < item.lastVisitTime
    THEN [all EXCEPT ![existingIndex(all, item.url)] = item]
    ELSE all

(* The loop over batchItems[lo..hi], in order; the first half is merged    *)
(* before the second.                                                      *)
RECURSIVE mergeItems(_, _, _, _)
mergeItems(all, batchItems, lo, hi) ==
    IF lo > hi THEN all
    ELSE IF lo = hi THEN addItem(all, batchItems[lo])
    ELSE LET mid  == (lo + hi) \div 2
             left == mergeItems(all, batchItems, lo, mid)
         IN  IF Len(left) >= Len(all)
             THEN mergeItems(left, batchItems, mid + 1, hi)
             ELSE left

(* allHistoryItems.slice(0, targetMaxResults) *)
slice(all, n) ==
    SubSeq(all, 1, Min(Len(all), Max(0, n)))

(* fetchHistory returns / rejects.                                         *)
fetchReturn(f, items) ==
    [f EXCEPT !.pc = "done", !.outcome = "returned", !.historyItems = items]

fetchReject(f) ==
    [f EXCEPT !.pc = "done", !.outcome = "raised"]

(* A search that came back empty for an empty text is repeated with the    *)
(* text ' ': its result, or nothing if it fails.                           *)
NeedsFallback(f, r) ==
    r.ok /\ r.items = <<>> /\ ~f.params.hasText

fallbackItems(r2) ==
    IF r2.ok THEN r2.items ELSE <<>>

(* Mutant: only a start time in the future is refused, a range that is     *)
(* empty or inverted is searched.                                          *)
fetchBeginNoRangeCheck(f) ==
    LET range  == TimeRange(f.params)
        target == TargetMaxResults(f.params)
        f1 == [f EXCEPT !.calculatedStartTime = range.startTime,
                        !.calculatedEndTime = range.endTime,
                        !.shouldUseDateRange = range.shouldUseDateRange,
                        !.targetMaxResults = target]
    IN  IF f.source.kind = "unavailable"
        THEN fetchReturn(f1, <<>>)
        ELSE IF range.shouldUseDateRange /\ range.startTime > Now
        THEN fetchReturn(f1, <<>>)
        ELSE IF target <= CHROME_API_LIMIT
        THEN [f1 EXCEPT !.pc = "single"]
        ELSE [f1 EXCEPT !.pc = "loop",
                        !.numBatches = Ceil(target, CHROME_API_LIMIT),
                        !.timeChunkSize =
                            IF range.shouldUseDateRange
                            THEN (range.endTime - range.startTime)
                                     \div Ceil(target, CHROME_API_LIMIT)
                            ELSE 0]

(* The parameters checked and the range computed: nothing to fetch, the    *)
(* single call, or the loop.                                               *)
fetchBegin(f) ==
    LET range  == TimeRange(f.params)
        target == TargetMaxResults(f.params)
        f1 == [f EXCEPT !.calculatedStartTime = range.startTime,
                        !.calculatedEndTime = range.endTime,
                        !.shouldUseDateRange = range.shouldUseDateRange,
                        !.targetMaxResults = target]
    IN  IF f.source.kind = "unavailable"
        THEN fetchReturn(f1, <<>>)
        ELSE IF range.shouldUseDateRange
                /\ (range.startTime >= range.endTime \/ range.startTime > Now)
        THEN fetchReturn(f1, <<>>)
        ELSE IF target <= CHROME_API_LIMIT
        THEN [f1 EXCEPT !.pc = "single"]
        ELSE [f1 EXCEPT !.pc = "loop",
                        !.numBatches = Ceil(target, CHROME_API_LIMIT),
                        !.timeChunkSize =
                            IF range.shouldUseDateRange
                            THEN (range.endTime - range.startTime)
                                     \div Ceil(target, CHROME_API_LIMIT)
                            ELSE 0]

(* A fetchHistory call that has just been made.                            *)
NewFetch(params, source) ==
    [ pc                  |-> "start",
      params              |-> params,
      source              |-> source,
      calculatedStartTime |-> 0,
      calculatedEndTime   |-> 0,
      shouldUseDateRange  |-> FALSE,
      targetMaxResults    |-> 0,
      numBatches          |-> 0,
      timeChunkSize       |-> 0,
      i                   |-> 0,
      allHistoryItems     |-> <<>>,
      outcome             |-> "pending",
      historyItems        |-> <<>>,
      calls               |-> <<>>,
      seen                |-> {} ]

(* History: the searches issued, and the items they returned.              *)
called(f, q, r, isFallback) ==
    [f EXCEPT !.calls = Append(@, [query |-> q, ok |-> r.ok, batch |-> f.i,
                                   fallback |-> isFallback,
                                   returned |-> Len(r.items)]),
              !.seen = @ \cup { r.items[j] : j \in DOMAIN r.items }]

(* The single call made for a target within the API limit, r its result    *)
(* and r2 the result of the fallback search (if one is made).              *)
(* Mutant: the single call asks for as many results as the API allows.     *)
singleQueryUpToLimit(f) ==
    SearchQuery(f, CHROME_API_LIMIT, f.calculatedStartTime, f.calculatedEndTime)

singleQuery(f) ==
    SearchQuery(f, f.targetMaxResults, f.calculatedStartTime, f.calculatedEndTime)

fetchSingle(f, r, r2) ==
    LET q  == singleQuery(f)
        f1 == called(f, q, r, FALSE)
    IN  IF ~r.ok
        THEN fetchReject(f1)
        ELSE IF NeedsFallback(f, r)
        THEN fetchReturn(called(f1, q, r2, TRUE), fallbackItems(r2))
        ELSE fetchReturn(f1, r.items)

(* One iteration of the batch loop.                                        *)
batchMaxResults(f) ==
    Min(CHROME_API_LIMIT, f.targetMaxResults - Len(f.allHistoryItems))

batchStartTime(f) ==
    f.calculatedStartTime + f.i * f.timeChunkSize

batchEndTime(f) ==
    IF f.i = f.numBatches - 1
    THEN f.calculatedEndTime
    ELSE f.calculatedStartTime + (f.i + 1) * f.timeChunkSize

batchQuery(f) ==
    SearchQuery(f, batchMaxResults(f), batchStartTime(f), batchEndTime(f))

(* The loop is left: by break, or by its condition.                        *)
fetchFinish(f) ==
    fetchReturn(f, slice(f.allHistoryItems, f.targetMaxResults))

InvalidBatchRange(f) ==
    f.shouldUseDateRange /\ batchStartTime(f) >= batchEndTime(f)

(* Mutant: the loop goes on to the next partition however few items the    *)
(* search returned.                                                        *)
fetchBatchNoEarlyStop(f, r, r2) ==
    LET q  == batchQuery(f)
        f1 == called(f, q, r, FALSE)
        f2 == IF NeedsFallback(f, r) THEN called(f1, q, r2, TRUE) ELSE f1
        batchItems == IF NeedsFallback(f, r) THEN fallbackItems(r2) ELSE r.items
        f3 == [f2 EXCEPT !.allHistoryItems =
                             mergeItems(@, batchItems, 1, Len(batchItems))]
        f4 == [f3 EXCEPT !.i = @ + 1]
    IN  IF ~r.ok
        THEN fetchFinish(f1)
        ELSE IF f4.i < f4.numBatches
                /\ Len(f4.allHistoryItems) < f4.targetMaxResults
        THEN f4
        ELSE fetchFinish(f4)

fetchBatch(f, r, r2) ==
    LET q  == batchQuery(f)
        f1 == called(f, q, r, FALSE)
        f2 == IF NeedsFallback(f, r) THEN called(f1, q, r2, TRUE) ELSE f1
        batchItems == IF NeedsFallback(f, r) THEN fallbackItems(r2) ELSE r.items
        f3 == [f2 EXCEPT !.allHistoryItems =
                             mergeItems(@, batchItems, 1, Len(batchItems))]
        f4 == [f3 EXCEPT !.i = @ + 1]
    IN  IF ~r.ok
        THEN fetchFinish(f1)
        ELSE IF Len(batchItems) < batchMaxResults(f)
                /\ Len(batchItems) < EXHAUSTED_BELOW
        THEN fetchFinish(f3)
        ELSE IF f4.i < f4.numBatches
                /\ Len(f4.allHistoryItems) < f4.targetMaxResults
        THEN f4
        ELSE fetchFinish(f4)

(***************************************************************************)
(* chatWithBackend: the conversion of the fetched items to records.        *)
(* A JavaScript value is a kind and, for a number, a numeric string or a   *)
(* url, a number n; numbers are counted in halves (n = 3 is 1.5).          *)
(***************************************************************************)
Js(kind, n) ==
    [kind |-> kind, n |-> n]

Undefined ==
    Js("undefined", 0)

NaN ==
    Js("NaN", 0)

(* Number(v) *)
Number(v) ==
    IF v.kind = "number" \/ v.kind = "Infinity" THEN v
    ELSE IF v.kind = "numericString" THEN Js("number", v.n)
    ELSE IF v.kind = "null" \/ v.kind = "blankString" THEN Js("number", 0)
    ELSE NaN

isNaN(v) ==
    v.kind = "NaN"

isFinite(v) ==
    v.kind = "number"

(* Math.floor(Math.max(0, v)) for a number v that is not NaN.              *)
FloorMax0(v) ==
    IF v.kind = "Infinity"
    THEN (IF v.n > 0 THEN v ELSE Js("number", 0))
    ELSE Js("number", 2 * (Max(0, v.n) \div 2))

NullEntry ==
    [null |-> TRUE]

(* Mutant: an item without a usable lastVisitTime is sent with             *)
(* last_visit_time 0 instead of being dropped.                             *)
convertItemZeroTime(item) ==
    [url |-> item.url,
     title |-> item.title,
     visit_count |-> Js("number", 0),
     last_visit_time |->
         IF isFinite(Number(item.lastVisitTime)) /\ Number(item.lastVisitTime).n > 0
         THEN Number(item.lastVisitTime)
         ELSE Js("number", 0)]

(* The callback of historyItems.map: the record of an item, or null.       *)
convertItem(item) ==
    LET visitCount ==
            IF item.visitCount.kind \notin {"undefined", "null"}
            THEN (IF isNaN(Number(item.visitCount))
                  THEN Js("number", 0)
                  ELSE FloorMax0(Number(item.visitCount)))
            ELSE Js("number", 0)
        time == Number(item.lastVisitTime)
    IN  IF item.lastVisitTime.kind \in {"undefined", "null"}
        THEN NullEntry
        ELSE IF isNaN(time) \/ ~isFinite(time) \/ time.n <= 0
        THEN NullEntry
        ELSE IF \/ item.url.kind \in {"undefined", "null", "NaN"}
                \/ (item.url.kind \in {"number", "blankString"} /\ item.url.n = 0)
                \/ item.url.kind \notin {"string", "numericString", "blankString"}
                \/ item.url.kind = "blankString"
        THEN NullEntry
        ELSE [url |-> item.url,
              title |-> IF item.title.kind = "string" THEN item.title ELSE Js("blankString", 0),
              visit_count |-> visitCount,
              last_visit_time |-> time]

IsEntry(e) ==
    e # NullEntry

(* historyItems.map(...).filter(entry => entry !== null) *)
convertHistory(historyItems) ==
    SelectSeq([j \in DOMAIN historyItems |-> convertItem(historyItems[j])], IsEntry)

(***************************************************************************)
(* Two chatWithBackend calls at once.                                      *)
(***************************************************************************)
NoSessions ==
    <<>>

(* The executor of the Promise chatWithBackend returns: a new WebSocket    *)
(* and the session variables of this call, the batches prepared, the       *)
(* timeout armed.                                                          *)
executor(h) ==
    [NewSession EXCEPT !.phase = "running",
                       !.wsState = "CONNECTING",
                       !.batchesToSend = PrepareBatches(h),
                       !.timeout = TRUE]

(* Mutant: isResolved is one variable of the module, shared by the calls.  *)
handledShared(s, i, c) ==
    [s EXCEPT !.sessions = [j \in DOMAIN s.sessions |->
                               IF j = i
                               THEN [s.sessions[j] EXCEPT !.c = [c EXCEPT !.outbox = <<>>]]
                               ELSE [s.sessions[j] EXCEPT !.c.isResolved = c.isResolved]],
              !.last = i]

(* A handler or callback of call i has run and left its variables as c:    *)
(* they are the variables of that call's closure, and what it sent went    *)
(* out on that call's socket.                                              *)
handled(s, i, c) ==
    [s EXCEPT !.sessions[i].c = [c EXCEPT !.outbox = <<>>],
              !.last = i]

(***************************************************************************)
(* The backend's RateLimiter: a map from IP to a token bucket              *)
(* (rate.Limiter); buckets live on the heap, numbered as they are created. *)
(* No time elapses: no token is refilled.                                  *)
(***************************************************************************)
NoLimiter ==
    <<>>

NoChat ==
    <<>>

IPs ==
    {1, 2}

(* rateLimiter = NewRateLimiter(10.0/60.0, 5) *)
Burst == 5

Idle ==
    [pc |-> "idle", ip |-> 0, limiter |-> 0]

NewRateLimiter(b) ==
    [ limiters |-> [ip \in IPs |-> 0],
      tokens   |-> <<>>,
      burst    |-> b,
      g        |-> [p \in 1..MaxGoroutines |-> Idle],
      allowed  |-> [ip \in IPs |-> 0],
      requests |-> 0 ]

(* getLimiter, under rl.mu: the bucket of the IP, created full if absent;  *)
(* goroutine p leaves with a pointer to it.                                *)
getLimiter(r, p, ip) ==
    IF r.limiters[ip] # 0
    THEN [r EXCEPT !.g[p] = [pc |-> "got", ip |-> ip, limiter |-> r.limiters[ip]]]
    ELSE [r EXCEPT !.tokens = Append(@, r.burst),
                   !.limiters[ip] = Len(r.tokens) + 1,
                   !.g[p] = [pc |-> "got", ip |-> ip, limiter |-> Len(r.tokens) + 1]]

(* limiter.Allow() on the bucket goroutine p holds: takes a token if there *)
(* is one; the request is allowed if it took one.                          *)
limiterAllow(r, p) ==
    LET l == r.g[p].limiter
    IN  IF r.tokens[l] >= 1
        THEN [r EXCEPT !.tokens[l] = @ - 1,
                       !.allowed[r.g[p].ip] = @ + 1,
                       !.g[p] = Idle]
        ELSE [r EXCEPT !.g[p] = Idle]

(* cleanup, under rl.mu: every bucket that is full is removed from the map. *)
cleanup(r) ==
    [r EXCEPT !.limiters = [ip \in IPs |->
                               IF r.limiters[ip] # 0 /\ r.tokens[r.limiters[ip]] = r.burst
                               THEN 0
                               ELSE r.limiters[ip]]]

(***************************************************************************)
(* chatWithHistory: the choice between Direct OpenAI mode and Backend mode. *)
(***************************************************************************)
(* !message || typeof message !== 'string' || message.trim().length === 0  *)
MessageMissing(message) ==
    message.kind \notin {"string", "numericString"}

(* Mutant: any stored value but undefined counts as a key.                 *)
hasApiKeyDefined(key) ==
    key.kind # "undefined"

(* !!(openai_api_key && openai_api_key.length > 0) *)
hasApiKey(key) ==
    /\ key.kind \notin {"undefined", "null", "NaN"}
    /\ ~(key.kind \in {"number", "blankString"} /\ key.n = 0)
    /\ key.kind \in {"string", "numericString", "blankString"}

NewChat(message, key) ==
    [ pc          |-> "called",
      message     |-> message,
      storedKey   |-> key,
      mode        |-> "none",
      openaiCalls |-> 0,
      result      |-> "pending" ]

(* chatWithHistory up to the call of chatWithOpenAI or chatWithBackend.     *)
chatWithHistory(h) ==
    IF MessageMissing(h.message)
    THEN [h EXCEPT !.pc = "done", !.result = "thrown"]
    ELSE IF hasApiKey(h.storedKey)
    THEN [h EXCEPT !.pc = "openai", !.mode = "openai"]
    ELSE [h EXCEPT !.pc = "backend", !.mode = "backend"]

(* chatWithOpenAI: the history is fetched, then posted with the messages   *)
(* to api.openai.com; a bad status or an empty reply is thrown.            *)
chatWithOpenAI(h, replied) ==
    [h EXCEPT !.pc = "done",
              !.openaiCalls = @ + 1,
              !.result = IF replied THEN "reply" ELSE "thrown"]

(***************************************************************************)
(* The state machine.                                                      *)
(***************************************************************************)
HistoryBatchOne ==
    [type |-> "history_batch", history |-> <<1>>, batchNumber |-> 1, totalBatches |-> 1]

Brief(m) ==
    IF m.type = "history_batch"
    THEN [type |-> m.type, batchNumber |-> m.batchNumber, size |-> Len(m.history)]
    ELSE [type |-> m.type, batchNumber |-> 0, size |-> 0]

(* The end of a handler or callback of the client: what it sent goes on    *)
(* the wire.                                                               *)
ClientStep(c) ==
    /\ cl' = [c EXCEPT !.outbox = <<>>]
    /\ c2s' = c2s \o c.outbox
    /\ log' = log \o [i \in 1..Len(c.outbox) |-> Brief(c.outbox[i])]

ServerStep(s) ==
    /\ srv' = [s EXCEPT !.outbox = <<>>]
    /\ s2c' = s2c \o s.outbox

Init ==
    /\ history \in { RecordSet(n) : n \in Sizes }
    /\ cl = NewSession
    /\ c2s = <<>>
    /\ s2c = <<>>
    /\ srv = NewServerSession
    /\ log = <<>>
    /\ foreign = 0
    /\ fh = IdleFetch
    /\ ss = NoSessions
    /\ rl = NoLimiter
    /\ ch = NoChat

(* The Promise executor of chatWithBackend: prepares the batches, creates  *)
(* the WebSocket and arms the session timeout.                             *)
StartSession ==
    /\ cl.phase = "created"
    /\ cl' = [cl EXCEPT !.phase = "running",
                        !.wsState = "CONNECTING",
                        !.batchesToSend = PrepareBatches(history),
                        !.timeout = TRUE]
    /\ UNCHANGED <<history, c2s, s2c, srv, log, foreign, fh, ss, rl, ch>>

(* The server accepts the connection and may greet with 'connected'.       *)
SrvAccept ==
    /\ cl.wsState = "CONNECTING"
    /\ srv.conn = "none"
    /\ \E welcome \in BOOLEAN :
          ServerStep(IF welcome
                     THEN srvSend([srv EXCEPT !.conn = "open"], ServerMessage("connected"))
                     ELSE [srv EXCEPT !.conn = "open"])
    /\ UNCHANGED <<history, cl, c2s, log, foreign, fh, ss, rl, ch>>

WsOpen ==
    /\ cl.wsState = "CONNECTING"
    /\ srv.conn = "open"
    /\ ClientStep(onopen([cl EXCEPT !.wsState = "OPEN"]))
    /\ UNCHANGED <<history, s2c, srv, foreign, fh, ss, rl, ch>>

(* A message event: delivered only while the socket is OPEN.               *)
ClientReceive ==
    /\ cl.wsState = "OPEN"
    /\ s2c # <<>>
    /\ ClientStep(onmessage(cl, Head(s2c)))
    /\ s2c' = Tail(s2c)
    /\ UNCHANGED <<history, srv, foreign, fh, ss, rl, ch>>

GraceTimerFire ==
    /\ cl.graceTimer
    /\ ClientStep(graceCallback([cl EXCEPT !.graceTimer = FALSE]))
    /\ UNCHANGED <<history, s2c, srv, foreign, fh, ss, rl, ch>>

NextBatchTimerFire ==
    /\ cl.nextTimers > 0
    /\ ClientStep(sendNextBatch([cl EXCEPT !.nextTimers = @ - 1]))
    /\ UNCHANGED <<history, s2c, srv, foreign, fh, ss, rl, ch>>

RetryTimerFire ==
    /\ cl.retryTimers > 0
    /\ ClientStep(retryCallback([cl EXCEPT !.retryTimers = @ - 1,
                                            !.retriesRun = @ + 1]))
    /\ UNCHANGED <<history, s2c, srv, foreign, fh, ss, rl, ch>>

SessionTimeoutFire ==
    /\ cl.timeout
    /\ ClientStep(timeoutCallback([cl EXCEPT !.timeout = FALSE]))
    /\ UNCHANGED <<history, s2c, srv, foreign, fh, ss, rl, ch>>

(* The connection fails: error event, then close event; what is in flight  *)
(* is lost.                                                                *)
WsFail ==
    /\ cl.wsState \in {"CONNECTING", "OPEN", "CLOSING"}
    /\ cl' = onclose(onerror([cl EXCEPT !.wsState = "CLOSED"]))
    /\ srv' = [srv EXCEPT !.conn = "closed"]
    /\ c2s' = <<>>
    /\ s2c' = <<>>
    /\ UNCHANGED <<history, log, foreign, fh, ss, rl, ch>>

(* The server's Close frame arrives, after everything the server sent:    *)
(* readyState becomes CLOSING; the close event is a later task.            *)
WsPeerClosing ==
    /\ cl.wsState = "OPEN"
    /\ srv.conn = "closed"
    /\ s2c = <<>>
    /\ cl' = [cl EXCEPT !.wsState = "CLOSING"]
    /\ UNCHANGED <<history, c2s, s2c, srv, log, foreign, fh, ss, rl, ch>>

(* The closing handshake ends (started by ws.close() or by the server):    *)
(* close event.                                                            *)
WsClosed ==
    /\ cl.wsState = "CLOSING"
    /\ cl' = onclose([cl EXCEPT !.wsState = "CLOSED"])
    /\ srv' = [srv EXCEPT !.conn = "closed"]
    /\ c2s' = <<>>
    /\ s2c' = <<>>
    /\ UNCHANGED <<history, log, foreign, fh, ss, rl, ch>>

SrvReceive ==
    /\ srv.conn = "open"
    /\ c2s # <<>>
    /\ ServerStep(receive(srv, Head(c2s)))
    /\ c2s' = Tail(c2s)
    /\ UNCHANGED <<history, cl, log, foreign, fh, ss, rl, ch>>

(* The downstream call of an executing chat returns: reply, or error.      *)
SrvFinishChat ==
    /\ srv.conn = "open"
    /\ srv.executing > 0
    /\ \E ok \in BOOLEAN :
          ServerStep(srvSend([srv EXCEPT !.executing = @ - 1, !.finished = @ + 1],
                             IF ok
                             THEN [ServerMessage("reply") EXCEPT !.reply = "reply text"]
                             ELSE [ServerMessage("error") EXCEPT !.error = "upstream error"]))
    /\ UNCHANGED <<history, cl, c2s, log, foreign, fh, ss, rl, ch>>

(* The server ends the session: after the terminal result, or             *)
(* unexpectedly.                                                           *)
SrvClose ==
    /\ srv.conn = "open"
    /\ srv' = [srv EXCEPT !.conn = "closed"]
    /\ UNCHANGED <<history, cl, c2s, s2c, log, foreign, fh, ss, rl, ch>>

(* Another client implementation on the connection: any protocol message   *)
(* at any time.                                                            *)
ForeignSend ==
    /\ foreign < MaxForeign
    /\ srv.conn = "open"
    /\ \E m \in {HistoryBatchOne, UploadCompleteMessage, ChatMessage} :
          c2s' = Append(c2s, m)
    /\ foreign' = foreign + 1
    /\ UNCHANGED <<history, cl, s2c, srv, log, fh, ss, rl, ch>>

(* A server other than the one modelled here: any message at any time.     *)
ForeignMessages ==
    { ServerMessage("connected"),
      [ServerMessage("history_batch_ack") EXCEPT !.received = 1, !.total = 1],
      ServerMessage("history_upload_complete_ack"),
      ServerMessage("chat_queued"),
      [ServerMessage("reply") EXCEPT !.reply = "reply text"],
      [ServerMessage("error") EXCEPT !.error = "upstream error"],
      ServerMessage("unknown") }

ForeignPush ==
    /\ foreign < MaxForeign
    /\ srv.conn = "open"
    /\ \E m \in ForeignMessages :
          s2c' = Append(s2c, m)
    /\ foreign' = foreign + 1
    /\ UNCHANGED <<history, cl, c2s, srv, log, fh, ss, rl, ch>>

Next ==
    \/ StartSession
    \/ SrvAccept
    \/ WsOpen
    \/ ClientReceive
    \/ GraceTimerFire
    \/ NextBatchTimerFire
    \/ RetryTimerFire
    \/ SessionTimeoutFire
    \/ WsFail
    \/ WsPeerClosing
    \/ WsClosed
    \/ SrvReceive
    \/ SrvFinishChat
    \/ SrvClose

Spec ==
    Init /\ [][Next]_vars

NextSrv ==
    \/ Next
    \/ ForeignSend

SpecSrv ==
    Init /\ [][NextSrv]_vars

NextCli ==
    \/ Next
    \/ ForeignPush

SpecCli ==
    Init /\ [][NextCli]_vars

(* The accumulator alone: a client uploads large batches, one in flight,   *)
(* up to and beyond the warning threshold and the hard cap; the            *)
(* acknowledgments stay on the wire.                                       *)
AccBatchSizes ==
    {1, 10000}

InitAcc ==
    /\ history = <<>>
    /\ cl = NewSession
    /\ c2s = <<>>
    /\ s2c = <<>>
    /\ srv = NewServerSession
    /\ log = <<>>
    /\ foreign = 0
    /\ fh = IdleFetch
    /\ ss = NoSessions
    /\ rl = NoLimiter
    /\ ch = NoChat

ForeignBatch ==
    /\ srv.conn = "open"
    /\ foreign < MaxAccBatches
    /\ c2s = <<>>
    /\ \E n \in AccBatchSizes :
          LET m == [type |-> "history_batch", history |-> RecordSet(n),
                    batchNumber |-> foreign + 1, totalBatches |-> MaxAccBatches]
          IN  /\ c2s' = Append(c2s, m)
              /\ log' = Append(log, Brief(m))
    /\ foreign' = foreign + 1
    /\ UNCHANGED <<history, cl, s2c, srv, fh, ss, rl, ch>>

NextAcc ==
    \/ StartSession
    \/ SrvAccept
    \/ ForeignBatch
    \/ SrvReceive

SpecAcc ==
    InitAcc /\ [][NextAcc]_vars

(* fetchHistory on its own: parameters and source chosen at the call.      *)
FetchTargets ==
    {0, 1, 2, CHROME_API_LIMIT + 1}

FetchWindows ==
    { <<NoTime, NoTime>>, <<NoTime, 4>>, <<0, 4>>, <<0, NoTime>>,
      <<3, 3>>, <<5, 2>>, <<Now + 1, NoTime>> }

SmallSources ==
    { [kind |-> "any", M |-> 0], [kind |-> "unavailable", M |-> 0] }
        \cup { [kind |-> "store", M |-> m] : m \in 0..MaxStore }

SmallFetches ==
    { NewFetch([maxResults |-> t, startTime |-> w[1], endTime |-> w[2],
                hasText |-> x], src) :
        t \in FetchTargets, w \in FetchWindows, x \in BOOLEAN, src \in SmallSources }

(* Histories large enough for a second batch to be fetched.                *)
LargeFetches ==
    { NewFetch([maxResults |-> CHROME_API_LIMIT + 1, startTime |-> 0,
                endTime |-> 2 * EXHAUSTED_BELOW + 2, hasText |-> FALSE],
               [kind |-> "store", M |-> EXHAUSTED_BELOW + 1]),
      NewFetch([maxResults |-> CHROME_API_LIMIT + 1, startTime |-> NoTime,
                endTime |-> NoTime, hasText |-> FALSE],
               [kind |-> "store", M |-> CHROME_API_LIMIT + 1]),
      NewFetch([maxResults |-> CHROME_API_LIMIT + 1, startTime |-> NoTime,
                endTime |-> NoTime, hasText |-> FALSE],
               [kind |-> "bulk", M |-> 0]) }

InitEnum ==
    /\ history = <<>>
    /\ cl = NewSession
    /\ c2s = <<>>
    /\ s2c = <<>>
    /\ srv = NewServerSession
    /\ log = <<>>
    /\ foreign = 0
    /\ fh \in SmallFetches \cup LargeFetches
    /\ ss = NoSessions
    /\ rl = NoLimiter
    /\ ch = NoChat

FetchBegin ==
    /\ fh.pc = "start"
    /\ fh' = fetchBegin(fh)
    /\ UNCHANGED <<history, cl, c2s, s2c, srv, log, foreign, ss, rl, ch>>

FetchSingle ==
    /\ fh.pc = "single"
    /\ \E r \in Responses(fh.source, singleQuery(fh), Len(fh.calls) + 1) :
          IF NeedsFallback(fh, r)
          THEN \E r2 \in Responses(fh.source, singleQuery(fh), Len(fh.calls) + 2) :
                  fh' = fetchSingle(fh, r, r2)
          ELSE fh' = fetchSingle(fh, r, Failure)
    /\ UNCHANGED <<history, cl, c2s, s2c, srv, log, foreign, ss, rl, ch>>

FetchBatch ==
    /\ fh.pc = "loop"
    /\ IF InvalidBatchRange(fh)
       THEN fh' = fetchFinish(fh)
       ELSE \E r \in Responses(fh.source, batchQuery(fh), Len(fh.calls) + 1) :
               IF NeedsFallback(fh, r)
               THEN \E r2 \in Responses(fh.source, batchQuery(fh), Len(fh.calls) + 2) :
                       fh' = fetchBatch(fh, r, r2)
               ELSE fh' = fetchBatch(fh, r, Failure)
    /\ UNCHANGED <<history, cl, c2s, s2c, srv, log, foreign, ss, rl, ch>>

NextEnum ==
    \/ FetchBegin
    \/ FetchSingle
    \/ FetchBatch

SpecEnum ==
    InitEnum /\ [][NextEnum]_vars

(* chatWithBackend from the answer of fetchHistory to the prepared         *)
(* batches, for every short list of items of any shape.                    *)
RawUrls ==
    { Undefined, Js("blankString", 0), Js("blankString", 1), Js("number", 14),
      Js("string", 1) }

RawTimes ==
    { Undefined, Js("null", 0), Js("string", 1), Js("numericString", 14),
      Js("Infinity", 1), Js("number", -2), Js("number", 0), Js("number", 3) }

RawCounts ==
    { Undefined, Js("null", 0), Js("string", 1), Js("number", -2), Js("number", 3),
      Js("number", 4) }

RawItems ==
    [url : RawUrls, title : {Undefined, Js("string", 1)},
     lastVisitTime : RawTimes, visitCount : RawCounts]

RECURSIVE RawLists(_)
RawLists(n) ==
    IF n = 0 THEN { <<>> }
    ELSE RawLists(n - 1) \cup { Append(l, x) : l \in RawLists(n - 1), x \in RawItems }

InitConv ==
    /\ history = <<>>
    /\ cl = NewSession
    /\ c2s = <<>>
    /\ s2c = <<>>
    /\ srv = NewServerSession
    /\ log = <<>>
    /\ foreign = 0
    /\ fh \in { [pc |-> "done", outcome |-> "returned", historyItems |-> l] :
                  l \in RawLists(MaxRaw) }
               \cup { [pc |-> "done", outcome |-> "raised", historyItems |-> <<>>] }
    /\ ss = NoSessions
    /\ rl = NoLimiter
    /\ ch = NoChat

(* const result = await fetchHistory(...) in try/catch, then the conversion *)
ConvertHistory ==
    /\ fh.pc = "done"
    /\ history' = convertHistory(IF fh.outcome = "raised" THEN <<>> ELSE fh.historyItems)
    /\ fh' = [fh EXCEPT !.pc = "converted"]
    /\ UNCHANGED <<cl, c2s, s2c, srv, log, foreign, ss, rl, ch>>

StartConverted ==
    /\ fh.pc = "converted"
    /\ StartSession

NextConv ==
    \/ ConvertHistory
    \/ StartConverted

SpecConv ==
    InitConv /\ [][NextConv]_vars

(* Two calls of chatWithBackend in the same service worker, each with its  *)
(* own history, socket and timers; the servers may send anything.          *)
InitTwo ==
    /\ history = <<>>
    /\ cl = NewSession
    /\ c2s = <<>>
    /\ s2c = <<>>
    /\ srv = NewServerSession
    /\ log = <<>>
    /\ foreign = 0
    /\ fh = IdleFetch
    /\ ss = [sessions |-> [i \in 1..2 |-> [c |-> NewSession,
                                            history |-> RecordSet(i - 1),
                                            events |-> 0]],
             last |-> 0]
    /\ rl = NoLimiter
    /\ ch = NoChat

TwoUnchanged ==
    UNCHANGED <<history, cl, c2s, s2c, srv, log, foreign, fh, rl, ch>>

TwoStart(i) ==
    /\ ss.sessions[i].c.phase = "created"
    /\ ss' = handled(ss, i, executor(ss.sessions[i].history))
    /\ TwoUnchanged

TwoOpen(i) ==
    /\ ss.sessions[i].c.wsState = "CONNECTING"
    /\ ss' = handled(ss, i, onopen([ss.sessions[i].c EXCEPT !.wsState = "OPEN"]))
    /\ TwoUnchanged

TwoMessage(i) ==
    /\ ss.sessions[i].c.wsState = "OPEN"
    /\ ss.sessions[i].events < MaxEvents
    /\ \E m \in ForeignMessages :
          ss' = handled([ss EXCEPT !.sessions[i].events = @ + 1], i,
                        onmessage(ss.sessions[i].c, m))
    /\ TwoUnchanged

TwoGraceTimer(i) ==
    /\ ss.sessions[i].c.graceTimer
    /\ ss' = handled(ss, i, graceCallback([ss.sessions[i].c EXCEPT !.graceTimer = FALSE]))
    /\ TwoUnchanged

TwoNextBatchTimer(i) ==
    /\ ss.sessions[i].c.nextTimers > 0
    /\ ss' = handled(ss, i, sendNextBatch([ss.sessions[i].c EXCEPT !.nextTimers = @ - 1]))
    /\ TwoUnchanged

TwoRetryTimer(i) ==
    /\ ss.sessions[i].c.retryTimers > 0
    /\ ss' = handled(ss, i, retryCallback([ss.sessions[i].c EXCEPT !.retryTimers = @ - 1,
                                                                    !.retriesRun = @ + 1]))
    /\ TwoUnchanged

TwoTimeout(i) ==
    /\ ss.sessions[i].c.timeout
    /\ ss' = handled(ss, i, timeoutCallback([ss.sessions[i].c EXCEPT !.timeout = FALSE]))
    /\ TwoUnchanged

TwoFail(i) ==
    /\ ss.sessions[i].c.wsState \in {"CONNECTING", "OPEN", "CLOSING"}
    /\ ss' = handled(ss, i, onclose(onerror([ss.sessions[i].c EXCEPT !.wsState = "CLOSED"])))
    /\ TwoUnchanged

TwoClosed(i) ==
    /\ ss.sessions[i].c.wsState = "CLOSING"
    /\ ss' = handled(ss, i, onclose([ss.sessions[i].c EXCEPT !.wsState = "CLOSED"]))
    /\ TwoUnchanged

NextTwo ==
    \E i \in 1..2 :
        \/ TwoStart(i)
        \/ TwoOpen(i)
        \/ TwoMessage(i)
        \/ TwoGraceTimer(i)
        \/ TwoNextBatchTimer(i)
        \/ TwoRetryTimer(i)
        \/ TwoTimeout(i)
        \/ TwoClosed(i)
        \/ TwoFail(i)

SpecTwo ==
    InitTwo /\ [][NextTwo]_vars

(* The backend under concurrent requests: each goroutine serves one        *)
(* request at a time, the cleanup goroutine runs at any moment.            *)
InitRate ==
    /\ history = <<>>
    /\ cl = NewSession
    /\ c2s = <<>>
    /\ s2c = <<>>
    /\ srv = NewServerSession
    /\ log = <<>>
    /\ foreign = 0
    /\ fh = IdleFetch
    /\ ss = NoSessions
    /\ rl = NewRateLimiter(Burst)
    /\ ch = NoChat

RateUnchanged ==
    UNCHANGED <<history, cl, c2s, s2c, srv, log, foreign, fh, ss, ch>>

(* Allow(ip), first half: limiter := rl.getLimiter(ip) *)
RateGetLimiter(p) ==
    /\ rl.g[p].pc = "idle"
    /\ rl.requests < MaxRequests
    /\ \E ip \in IPs :
          rl' = getLimiter([rl EXCEPT !.requests = @ + 1], p, ip)
    /\ RateUnchanged

(* Allow(ip), second half: return limiter.Allow() *)
RateAllow(p) ==
    /\ rl.g[p].pc = "got"
    /\ rl' = limiterAllow(rl, p)
    /\ RateUnchanged

(* A tick of the cleanup ticker.                                           *)
RateCleanup ==
    /\ rl' = cleanup(rl)
    /\ RateUnchanged

NextRate ==
    \/ \E p \in 1..MaxGoroutines : RateGetLimiter(p)
    \/ \E p \in 1..MaxGoroutines : RateAllow(p)
    \/ RateCleanup

SpecRate ==
    InitRate /\ [][NextRate]_vars

(* One CHAT_WITH_HISTORY request: any message, any value stored under     *)
(* openai_api_key; in Backend mode the session with the server follows.    *)
ChatMessages ==
    { Undefined, Js("blankString", 0), Js("blankString", 1), Js("number", 14),
      Js("string", 1) }

StoredKeys ==
    { Undefined, Js("null", 0), Js("blankString", 0), Js("blankString", 1),
      Js("number", 14), Js("string", 1) }

InitMode ==
    /\ history \in { RecordSet(n) : n \in Sizes }
    /\ cl = NewSession
    /\ c2s = <<>>
    /\ s2c = <<>>
    /\ srv = NewServerSession
    /\ log = <<>>
    /\ foreign = 0
    /\ fh = IdleFetch
    /\ ss = NoSessions
    /\ rl = NoLimiter
    /\ ch \in { NewChat(m, k) : m \in ChatMessages, k \in StoredKeys }

ChatBegin ==
    /\ ch.pc = "called"
    /\ ch' = chatWithHistory(ch)
    /\ UNCHANGED <<history, cl, c2s, s2c, srv, log, foreign, fh, ss, rl>>

ChatOpenAI ==
    /\ ch.pc = "openai"
    /\ \E replied \in BOOLEAN : ch' = chatWithOpenAI(ch, replied)
    /\ UNCHANGED <<history, cl, c2s, s2c, srv, log, foreign, fh, ss, rl>>

ChatBackend ==
    /\ ch.pc = "backend"
    /\ Next

NextMode ==
    \/ ChatBegin
    \/ ChatOpenAI
    \/ ChatBackend

SpecMode ==
    InitMode /\ [][NextMode]_vars

(* The session with a server that also sends, at any time, messages the   *)
(* client has no branch for.                                               *)
IgnoredMessages ==
    { NotJSON, ServerMessage("unknown"), ServerMessage("") }

IgnoredPush ==
    /\ foreign < MaxForeign
    /\ srv.conn = "open"
    /\ \E m \in IgnoredMessages :
          s2c' = Append(s2c, m)
    /\ foreign' = foreign + 1
    /\ UNCHANGED <<history, cl, c2s, srv, log, fh, ss, rl, ch>>

NextMsg ==
    \/ Next
    \/ IgnoredPush

SpecMsg ==
    Init /\ [][NextMsg]_vars

InitBatch ==
    /\ history \in { RecordSet(n) : n \in (0..MaxRecords) \cup {12345} }
    /\ cl = NewSession
    /\ c2s = <<>>
    /\ s2c = <<>>
    /\ srv = NewServerSession
    /\ log = <<>>
    /\ foreign = 0
    /\ fh = IdleFetch
    /\ ss = NoSessions
    /\ rl = NoLimiter
    /\ ch = NoChat

NextBatch ==
    StartSession

SpecBatch ==
    InitBatch /\ [][NextBatch]_vars

(***************************************************************************)
(* Properties.                                                             *)
(***************************************************************************)
LogCount(t) ==
    Cardinality({ i \in DOMAIN log : log[i].type = t })

TotalBatches ==
    Len(cl.batchesToSend)

(* The least t with t * d >= n: the ceiling of n / d, stated without the   *)
(* arithmetic PrepareBatches uses.                                         *)
LeastCover(n, d) ==
    CHOOSE t \in 0..n : t * d >= n /\ (t > 0 => (t - 1) * d < n)

RECURSIVE ConcatBatches(_)
ConcatBatches(bs) ==
    IF bs = <<>> THEN <<>> ELSE Head(bs).history \o ConcatBatches(Tail(bs))

(* C1: the server starts executing a chat request only when it has         *)
(* ingested every batch (all records) of the session and has acknowledged  *)
(* history_upload_complete.                                                *)
C1_ChatExecutesAfterFullIngestion ==
    srv.started > 0 =>
        /\ srv.uploadComplete
        /\ srv.completeAcks > 0
        /\ srv.batchesIngested = TotalBatches
        /\ srv.total = Len(history)

C1_Witness ==
    srv.started > 0 /\ TotalBatches >= 2

(* C2: at most one batch is in flight: batches sent minus acknowledgments  *)
(* received never exceeds 1.                                               *)
C2_OneBatchInFlight ==
    LogCount("history_batch") - cl.totalBatchesAcknowledged <= 1

C4_ChatOnceAfterCompleteAck ==
    /\ LogCount("chat") <= 1
    /\ LogCount("chat") > 0 => cl.historyUploadCompleteAcknowledged

C4_Witness ==
    LogCount("chat") = 1 /\ foreign > 0 /\ TotalBatches >= 1

(* C5: a chat received by the server before upload-complete was processed  *)
(* is not executed: it is held, and the response to it is chat_queued.     *)
C5_ChatBeforeCompleteIsQueued ==
    [][ (srv'.chatsReceived = srv.chatsReceived + 1 /\ ~srv.uploadComplete) =>
            /\ srv'.started = srv.started
            /\ srv'.executing = srv.executing
            /\ srv'.held = srv.held + 1
            /\ s2c' = Append(s2c, ServerMessage("chat_queued")) ]_vars

C5_Witness ==
    srv.held > 0 /\ ~srv.uploadComplete /\ srv.queued > 0

(* C6: once upload-complete has been acknowledged no chat is held: every   *)
(* chat received, the queued ones included, has been released for          *)
(* execution.                                                              *)
C6_HeldChatReleasedOnComplete ==
    srv.uploadComplete => (srv.held = 0 /\ srv.started = srv.chatsReceived)

C6_Witness ==
    srv.uploadComplete /\ srv.queued > 0 /\ srv.started >= srv.queued

(* C7: the server has sent a history_batch_ack for each of the session's   *)
(* batches before it sends history_upload_complete_ack.                    *)
C7_CompleteAckAfterAllBatchAcks ==
    srv.completeAcks > 0 => srv.batchAcksSent = TotalBatches

C7_Witness ==
    srv.completeAcks > 0 /\ TotalBatches >= 2

(* C8: N records give ceil(N / BATCH_SIZE) batches, each of BATCH_SIZE      *)
(* records but the last, which holds the rest, and each carries            *)
(* totalBatches = ceil(N / BATCH_SIZE).                                    *)
C8_BatchCountAndSizes ==
    cl.phase = "running" =>
        LET N == Len(history)
            T == LeastCover(N, BATCH_SIZE)
        IN  /\ Len(cl.batchesToSend) = T
            /\ \A k \in 1..Len(cl.batchesToSend) :
                  /\ cl.batchesToSend[k].totalBatches = T
                  /\ k < T => Len(cl.batchesToSend[k].history) = BATCH_SIZE
                  /\ k = T => Len(cl.batchesToSend[k].history) = N - BATCH_SIZE * (T - 1)

C8_Witness ==
    /\ Len(history) = 12345
    /\ Len(cl.batchesToSend) = 25
    /\ Len(cl.batchesToSend[25].history) = 345

(* C9: the batches' records, concatenated in batchNumber order, are the    *)
(* record set, and the k-th batch has batchNumber k.                       *)
C9_BatchRoundTrip ==
    cl.phase = "running" =>
        /\ ConcatBatches(cl.batchesToSend) = history
        /\ \A k \in 1..Len(cl.batchesToSend) : cl.batchesToSend[k].batchNumber = k

C9_Witness ==
    cl.phase = "running" /\ Len(history) = 1001 /\ Len(cl.batchesToSend) = 3

(* C10: when the completion acknowledgment has been received, the          *)
(* `received` fields of the batch acknowledgments sum to N, and the server *)
(* has counted N records.                                                  *)
C10_ReceivedSumIsN ==
    (cl.historyUploadCompleteAcknowledged /\ srv.completeAcks > 0) =>
        /\ cl.receivedSum = Len(history)
        /\ srv.total = Len(history)

C10_Witness ==
    /\ cl.historyUploadCompleteAcknowledged
    /\ srv.completeAcks > 0
    /\ Len(history) = 2 * BATCH_SIZE + 1

(* C11: with an empty record set no history_batch is ever sent, and once   *)
(* the welcome has been received history_upload_complete is on the wire    *)
(* (sent in the welcome's handler, with no acknowledgment awaited).        *)
C11_EmptySetCompletesOnWelcome ==
    Len(history) = 0 =>
        /\ LogCount("history_batch") = 0
        /\ cl.isConnected => LogCount("history_upload_complete") = 1

C11_Witness ==
    /\ Len(history) = 0
    /\ cl.isConnected
    /\ cl.totalBatchesAcknowledged = 0
    /\ LogCount("history_upload_complete") = 1

(* C12: once the grace timer has fired on an open connection, with no      *)
(* welcome delivered or pending, the client has started the upload: it has *)
(* sent batch 1 or, with no batches, history_upload_complete.              *)
C12_ProgressAfterGrace ==
    ( /\ cl.wsState = "OPEN"
      /\ ~cl.graceTimer
      /\ s2c = <<>> ) =>
        \/ LogCount("history_batch") >= 1
        \/ LogCount("history_upload_complete") >= 1

RECURSIVE SumSizes(_)
SumSizes(seq) ==
    IF seq = <<>> THEN 0 ELSE Len(Head(seq).history) + SumSizes(Tail(seq))

RECURSIVE SumLogged(_)
SumLogged(seq) ==
    IF seq = <<>> THEN 0 ELSE Head(seq).size + SumLogged(Tail(seq))

RECURSIVE SumReceived(_)
SumReceived(seq) ==
    IF seq = <<>> THEN 0 ELSE Head(seq).received + SumReceived(Tail(seq))

IsBatchAck(m) ==
    m.type = "history_batch_ack"

BatchAcks ==
    SelectSeq(s2c, IsBatchAck)

(* C13: the accumulator's total is the number of all records received,     *)
(* also beyond the hard cap; the buffer holds the records up to the hard   *)
(* cap and no more; every batch is acknowledged, none is rejected with an  *)
(* error, and the connection stays open.                                   *)
C13_AccumulatorCapacity ==
    /\ srv.total = SumLogged(log) - SumSizes(c2s)
    /\ srv.buffered = Min(srv.total, MAX_HISTORY_ENTRIES)
    /\ srv.batchesIngested = Len(log) - Len(c2s)
    /\ Len(BatchAcks) = srv.batchesIngested
    /\ \A i \in DOMAIN s2c : s2c[i].type # "error"
    /\ srv.batchesIngested > 0 => srv.conn = "open"
    /\ BatchAcks # <<>> => BatchAcks[Len(BatchAcks)].total = srv.total

C13_Witness ==
    /\ srv.total > MAX_HISTORY_ENTRIES
    /\ srv.buffered = MAX_HISTORY_ENTRIES
    /\ srv.conn = "open"
    /\ BatchAcks[Len(BatchAcks)].total = srv.total

(* C14: every history_batch_ack acknowledges its batch's records, carries  *)
(* the running total including them, and carries a warning exactly when    *)
(* that total exceeds the warning threshold.                               *)
C14_WarningIffAboveThreshold ==
    \A i \in DOMAIN BatchAcks :
        /\ BatchAcks[i].received = log[i].size
        /\ BatchAcks[i].total = SumReceived(SubSeq(BatchAcks, 1, i))
        /\ BatchAcks[i].warning <=> BatchAcks[i].total > HISTORY_MEMORY_WARNING_THRESHOLD

C14_Witness ==
    /\ srv.total = 60000
    /\ Len(BatchAcks) = 6
    /\ BatchAcks[5].total = HISTORY_MEMORY_WARNING_THRESHOLD
    /\ ~BatchAcks[5].warning
    /\ BatchAcks[6].warning
    /\ BatchAcks[6].total = 60000

(* C15: once the session timeout is no longer armed (it has fired, or a    *)
(* handler cleared it) the promise is settled, whatever the server sent;   *)
(* a session that ended by the timeout is rejected and its socket is       *)
(* closing or closed.                                                      *)
C15_SettledByTimeout ==
    /\ (cl.phase = "running" /\ ~cl.timeout) => cl.promise # "pending"
    /\ cl.promiseValue = "WebSocket connection timeout" =>
          /\ cl.promise = "rejected"
          /\ cl.wsState \in {"CLOSING", "CLOSED"}

C15_Witness ==
    /\ cl.promiseValue = "WebSocket connection timeout"
    /\ cl.promise = "rejected"
    /\ cl.wsState = "CLOSING"
    /\ ~cl.timeout

(* C16: once the promise is settled, no step changes the outcome, nothing  *)
(* more is sent, and the socket is not open (so no message is delivered).  *)
C16_TerminalStates ==
    [][ cl.promise # "pending" =>
          /\ cl'.promise = cl.promise
          /\ cl'.promiseValue = cl.promiseValue
          /\ log' = log
          /\ c2s' = <<>> \/ c2s' = c2s \/ c2s' = Tail(c2s)
          /\ cl.wsState \in {"CLOSING", "CLOSED"}
          /\ cl'.wsState \in {"CLOSING", "CLOSED"} ]_vars

C16_Witness ==
    /\ cl.promiseValue = "WebSocket connection timeout"
    /\ cl.promise = "rejected"
    /\ cl.wsState = "CLOSED"
    /\ cl.isResolved

(* C17: when the socket closes with no reply received the promise is       *)
(* rejected; a closed socket stays closed (no reconnect), nothing more is  *)
(* sent and the rejection stands.                                          *)
C17_ConnectionLossRejects ==
    [][ /\ (cl.wsState # "CLOSED" /\ cl'.wsState = "CLOSED" /\ cl.promise # "resolved")
            => cl'.promise = "rejected"
        /\ cl.wsState = "CLOSED" =>
              /\ cl'.wsState = "CLOSED"
              /\ cl'.promise = cl.promise
              /\ cl'.currentBatchIndex = cl.currentBatchIndex
              /\ log' = log ]_vars

C17_Witness ==
    /\ cl.wsState = "CLOSED"
    /\ cl.promise = "rejected"
    /\ cl.promiseValue = "WebSocket closed before receiving response"
    /\ cl.totalBatchesAcknowledged > 0
    /\ cl.totalBatchesAcknowledged < TotalBatches

(* The retry callback run in session state c with the socket writable.     *)
RetryWhenWritable(c) ==
    retryCallback([c EXCEPT !.wsState = "OPEN", !.outbox = <<>>])

(* C18: a send attempt that finds the socket not open sends nothing and    *)
(* arms one retry; the retry's callback arms no other retry; with the      *)
(* socket open it sends the pending batch once and advances by one, and    *)
(* otherwise it sends nothing and the promise is rejected (session         *)
(* failed), after which nothing is sent.                                   *)
C18_SendRetriedOnce ==
    [][ /\ cl'.retryTimers > cl.retryTimers =>
              /\ cl'.retryTimers = cl.retryTimers + 1
              /\ cl.wsState # "OPEN"
              /\ cl'.currentBatchIndex = cl.currentBatchIndex
              /\ log' = log
        /\ cl'.retriesRun # cl.retriesRun =>
              /\ cl'.retryTimers = cl.retryTimers - 1
              /\ cl.wsState # "OPEN" =>
                    /\ cl'.promise # "pending"
                    /\ cl.promise = "pending" =>
                          /\ cl'.promise = "rejected"
                          /\ cl'.promiseValue =
                                "WebSocket connection not ready for sending batches"
                    /\ cl'.currentBatchIndex = cl.currentBatchIndex
                    /\ log' = log
        /\ cl.currentBatchIndex < Len(cl.batchesToSend) =>
              /\ RetryWhenWritable(cl).outbox =
                    <<cl.batchesToSend[cl.currentBatchIndex + 1]>>
              /\ RetryWhenWritable(cl).currentBatchIndex = cl.currentBatchIndex + 1
              /\ RetryWhenWritable(cl).retryTimers = cl.retryTimers
              /\ RetryWhenWritable(cl).promise = cl.promise
        /\ cl.promiseValue = "WebSocket connection not ready for sending batches" =>
              log' = log ]_vars

C18_Witness ==
    /\ cl.retriesRun = 1
    /\ cl.retryTimers = 0
    /\ cl.promise = "rejected"
    /\ cl.promiseValue = "WebSocket connection not ready for sending batches"
    /\ cl.currentBatchIndex < TotalBatches

(* The rejection texts the client makes up itself.                         *)
GenericFailures ==
    { "WebSocket connection error",
      "WebSocket closed before receiving response",
      "WebSocket connection timeout",
      "WebSocket connection not ready for sending batches" }

(* The step is the delivery of the message at the head of s2c to an open   *)
(* socket that stays open / that the handler closes.                       *)
Delivered(t, after) ==
    /\ cl.wsState = "OPEN"
    /\ s2c # <<>>
    /\ Head(s2c).type = t
    /\ s2c' = Tail(s2c)
    /\ cl'.wsState = after

(* C19: a step that rejects the promise gives it the server's error text   *)
(* exactly when the step is the delivery of an error message; every other  *)
(* rejection (connection error, close, timeout, failed retry) carries one  *)
(* of the client's fixed texts.                                            *)
C19_ErrorTaxonomy ==
    [][ /\ (cl.promise = "pending" /\ cl'.promise = "rejected") =>
              IF Delivered("error", "CLOSING")
              THEN cl'.promiseValue = Head(s2c).error
              ELSE cl'.promiseValue \in GenericFailures
        /\ (cl.promise = "pending" /\ Delivered("error", "CLOSING")) =>
              /\ cl'.promise = "rejected"
              /\ cl'.promiseValue \notin GenericFailures ]_vars

C19_Witness ==
    /\ cl.promise = "rejected"
    /\ cl.promiseValue = "upstream error"
    /\ cl.isResolved
    /\ cl.wsState = "CLOSED"

(* C20: a history_batch_ack delivered while no batch is in flight (as many *)
(* acknowledged as sent) is ignored: the acknowledged count stays, no      *)
(* next-batch send is scheduled and nothing is sent.                       *)
C20_StrayAckIgnored ==
    [][ ( /\ Delivered("history_batch_ack", "OPEN")
          /\ LogCount("history_batch") <= cl.totalBatchesAcknowledged ) =>
            /\ cl'.totalBatchesAcknowledged = cl.totalBatchesAcknowledged
            /\ cl'.nextTimers = cl.nextTimers
            /\ log' = log ]_vars

(* The items accumulated by the batch loop, as a set.                      *)
Accumulated ==
    { fh.allHistoryItems[j] : j \in DOMAIN fh.allHistoryItems }

(* C21: in the batch loop the accumulated list never holds two items with  *)
(* one url, holds only items the source returned, and for every url        *)
(* returned so far holds an item at least as recent as every item          *)
(* returned for that url.                                                  *)
C21_MostRecentPerUrl ==
    fh.targetMaxResults > CHROME_API_LIMIT =>
        /\ Cardinality({ x.url : x \in Accumulated }) = Len(fh.allHistoryItems)
        /\ Accumulated \subseteq fh.seen
        /\ \A x \in fh.seen \ Accumulated :
              \E y \in Accumulated :
                  y.url = x.url /\ y.lastVisitTime >= x.lastVisitTime

C21_Witness ==
    /\ fh.pc = "done"
    /\ fh.source.kind = "bulk"
    /\ Len(fh.calls) = 2
    /\ Item(1, 1) \in fh.seen
    /\ Item(1, 7000) \in Accumulated
    /\ Item(2, 1) \in fh.seen \ Accumulated
    /\ Len(fh.allHistoryItems) = EXHAUSTED_BELOW

(* C22: fetchHistory returns at most its target number of records          *)
(* (maxResults, or 100,000 when none is given), for every window and every *)
(* source that returns at most maxResults items per search; no search asks *)
(* for more than the target or the API limit.                              *)
C22_AtMostTarget ==
    /\ fh.pc = "done" => Len(fh.historyItems) <= fh.targetMaxResults
    /\ fh.pc # "start" =>
          /\ Len(fh.allHistoryItems) <= fh.targetMaxResults
          /\ \A c \in DOMAIN fh.calls :
                /\ fh.calls[c].query.maxResults <= fh.targetMaxResults
                /\ fh.calls[c].query.maxResults <= CHROME_API_LIMIT

C22_Witness ==
    /\ fh.outcome = "returned"
    /\ fh.source.kind = "store"
    /\ fh.source.M > fh.targetMaxResults
    /\ fh.params.maxResults = fh.targetMaxResults
    /\ Len(fh.historyItems) = fh.targetMaxResults

SortedDescending(items) ==
    \A j \in 1..(Len(items) - 1) :
        items[j].lastVisitTime >= items[j + 1].lastVisitTime

(* C23: the records fetchHistory returns from a browser history (every     *)
(* search answered most recent first) are sorted by lastVisitTime          *)
(* descending, also when they were merged from several time windows.       *)
C23_ReturnedSortedDescending ==
    (fh.pc = "done" /\ fh.outcome = "returned" /\ fh.source.kind = "store") =>
        SortedDescending(fh.historyItems)

(* The records of all the history_batch messages of the session, in order. *)
RECURSIVE BatchRecords(_)
BatchRecords(batches) ==
    IF batches = <<>> THEN <<>>
    ELSE Head(batches).history \o BatchRecords(Tail(batches))

NonEmptyText(v) ==
    v.kind \in {"string", "numericString"}

PositiveFinite(v) ==
    v.kind = "number" /\ v.n > 0

NonNegativeInteger(v) ==
    v.kind = "number" /\ v.n >= 0 /\ v.n % 2 = 0

(* The item has a last visit time that is a positive number (given as a    *)
(* number or as its decimal text) and a url that is a non-blank string.    *)
Sendable(item) ==
    /\ item.lastVisitTime.kind \in {"number", "numericString"}
    /\ item.lastVisitTime.n > 0
    /\ NonEmptyText(item.url)

(* C24: every record of every history_batch message has a non-empty url, a *)
(* positive finite last_visit_time and a non-negative integer visit_count, *)
(* and the records sent are exactly the fetched items with a positive      *)
(* numeric last visit time and a non-empty url, in order: the others are   *)
(* dropped before batching and none is sent with last_visit_time 0.        *)
C24_TransmittedRecordsValid ==
    cl.phase = "running" =>
        LET sent == BatchRecords(cl.batchesToSend)
            kept == SelectSeq(IF fh.outcome = "raised" THEN <<>> ELSE fh.historyItems,
                              Sendable)
        IN  /\ \A j \in DOMAIN sent :
                  /\ NonEmptyText(sent[j].url)
                  /\ PositiveFinite(sent[j].last_visit_time)
                  /\ NonNegativeInteger(sent[j].visit_count)
            /\ Len(sent) = Len(kept)
            /\ \A j \in DOMAIN sent :
                  /\ sent[j].url = kept[j].url
                  /\ sent[j].last_visit_time.n = kept[j].lastVisitTime.n

(* An item with a fractional visit count and a numeric-text time was sent  *)
(* after an item without last visit time was fetched.                      *)
C24_Witness ==
    /\ cl.phase = "running"
    /\ Len(fh.historyItems) = 1
    /\ fh.outcome = "returned"
    /\ fh.historyItems[1].visitCount = Js("number", 3)
    /\ fh.historyItems[1].lastVisitTime = Js("numericString", 14)
    /\ Len(cl.batchesToSend) = 1
    /\ cl.batchesToSend[1].history[1].visit_count = Js("number", 2)

(* C25: in an enumeration over several partitions, a failed search on one  *)
(* partition does not end the enumeration: unless the target count was     *)
(* reached, the next partition has been queried when fetchHistory is done. *)
C25_FailureDoesNotAbort ==
    (fh.pc = "done" /\ fh.numBatches > 1) =>
        \A k \in DOMAIN fh.calls :
            ( /\ ~fh.calls[k].ok
              /\ ~fh.calls[k].fallback
              /\ fh.calls[k].batch + 1 < fh.numBatches
              /\ Len(fh.allHistoryItems) < fh.targetMaxResults )
            => \E k2 \in DOMAIN fh.calls : fh.calls[k2].batch = fh.calls[k].batch + 1

(* C26: a failed search is never raised to the caller of fetchHistory,     *)
(* neither on the single call nor on a partition.                          *)
C26_FailureNeverRaised ==
    fh.pc = "done" => fh.outcome # "raised"

(* C27: for a time window that is empty or inverted (start >= end),        *)
(* fetchHistory returns no items, raises no error and makes no search.     *)
C27_EmptyWindowNoCall ==
    ( /\ fh.pc = "done"
      /\ fh.params.startTime # NoTime
      /\ fh.params.endTime # NoTime
      /\ fh.params.startTime >= fh.params.endTime )
    => ( /\ fh.outcome = "returned"
         /\ fh.historyItems = <<>>
         /\ fh.calls = <<>> )

(* An inverted window on a history of three urls was answered.             *)
C27_Witness ==
    /\ fh.pc = "done"
    /\ fh.params.startTime = 5
    /\ fh.params.endTime = 2
    /\ fh.source = [kind |-> "store", M |-> 3]
    /\ fh.outcome = "returned"
    /\ fh.historyItems = <<>>
    /\ fh.calls = <<>>

(* The items of a history of the urls 1..M whose last visit is in the      *)
(* window [startTime, endTime).                                            *)
WindowItems(M, startTime, endTime) ==
    { Item(k, k) : k \in { n \in 1..M : startTime <= n /\ n < endTime } }

(* C28: with a time window and a target above the API limit, when no       *)
(* search fails and the history holds no more items than one search may    *)
(* return, fetchHistory returns every item of the window, however few      *)
(* items its earlier sub-windows hold.                                     *)
C28_WindowedPaginationComplete ==
    ( /\ fh.pc = "done"
      /\ fh.outcome = "returned"
      /\ fh.source.kind = "store"
      /\ fh.source.M <= CHROME_API_LIMIT
      /\ fh.params.startTime # NoTime
      /\ ~fh.params.hasText
      /\ fh.targetMaxResults > CHROME_API_LIMIT
      /\ \A k \in DOMAIN fh.calls : fh.calls[k].ok )
    => { fh.historyItems[j] : j \in DOMAIN fh.historyItems }
           = WindowItems(fh.source.M, fh.calculatedStartTime, fh.calculatedEndTime)

(* C29: without a time window, for a target above the API limit and a      *)
(* history of M urls, M above the limit, fetchHistory returns              *)
(* min(target, M) items of distinct urls when no search fails.             *)
C29_UnwindowedPaginationBeyondCap ==
    ( /\ fh.pc = "done"
      /\ fh.outcome = "returned"
      /\ fh.source.kind = "store"
      /\ fh.source.M > CHROME_API_LIMIT
      /\ ~fh.shouldUseDateRange
      /\ fh.targetMaxResults > CHROME_API_LIMIT
      /\ \A k \in DOMAIN fh.calls : fh.calls[k].ok )
    => Cardinality({ fh.historyItems[j].url : j \in DOMAIN fh.historyItems })
           = Min(fh.targetMaxResults, fh.source.M)

(* C30: of two chatWithBackend calls running at once, a message, timer or  *)
(* close event of one never changes the variables of the other: its        *)
(* counters, flags, batches, timers and outcome stay as they were.         *)
C30_SessionIsolation ==
    [][\A j \in 1..2 : j # ss'.last => ss'.sessions[j] = ss.sessions[j]]_vars

(* The first call was rejected by its timeout while the second, started    *)
(* before that, is still pending with its batch sent.                      *)
C30_Witness ==
    /\ ss # NoSessions
    /\ ss.last = 1
    /\ ss.sessions[1].c.promise = "rejected"
    /\ ss.sessions[1].c.isResolved
    /\ ss.sessions[2].c.promise = "pending"
    /\ ~ss.sessions[2].c.isResolved
    /\ ss.sessions[2].c.currentBatchIndex = 1
    /\ ss.sessions[2].c.wsState = "OPEN"

(* C31: while no token is refilled, the requests of one IP that the rate   *)
(* limiter allowed never number more than the burst size, whatever the     *)
(* interleaving of the Allow calls and of cleanup.                         *)
C31_BurstNeverExceeded ==
    (rl # NoLimiter) => \A ip \in IPs : rl.allowed[ip] <= rl.burst

(* The value stored under openai_api_key is a non-empty string.            *)
KeyStored(key) ==
    key.kind \in {"string", "numericString"} \/ (key.kind = "blankString" /\ key.n > 0)

SentNow ==
    { log'[k] : k \in (Len(log) + 1)..Len(log') }

(* C33: a step that sends a history_batch or history_upload_complete is    *)
(* taken with the socket open and leaves the session either welcomed       *)
(* ('connected' received) or past the 1 s grace timer set at the opening.  *)
C33_NoUploadBeforeWelcomeOrGrace ==
    [][ (\E m \in SentNow : m.type \in {"history_batch", "history_upload_complete"}) =>
            /\ cl.wsState = "OPEN"
            /\ cl'.isConnected \/ ~cl'.graceTimer ]_vars

(* The batchNumbers of the history_batch messages sent, in order.          *)
BatchNumbersSent ==
    LET batches == SelectSeq(log, LAMBDA m : m.type = "history_batch")
    IN  [k \in DOMAIN batches |-> batches[k].batchNumber]

(* C34: whatever the server sends and whenever the timers fire, the        *)
(* batchNumbers of the history_batch messages sent are 1, 2, ..., k in     *)
(* that order, k the number of batches the client counts as sent and at    *)
(* most totalBatches.                                                      *)
C34_BatchesInOrder ==
    /\ BatchNumbersSent = [k \in 1..Len(BatchNumbersSent) |-> k]
    /\ Len(BatchNumbersSent) = cl.currentBatchIndex
    /\ Len(BatchNumbersSent) <= Ceil(Len(history), BATCH_SIZE)

(* Three batches went out although the server had sent a message of its    *)
(* own accord.                                                             *)
C34_Witness ==
    /\ BatchNumbersSent = <<1, 2, 3>>
    /\ foreign > 0

(* C35: whatever the server sends, history_upload_complete is sent at most *)
(* once and no history_batch is sent after it.                             *)
C35_UploadCompleteOnceAndLast ==
    /\ LogCount("history_upload_complete") <= 1
    /\ \A j, k \in DOMAIN log :
          (log[j].type = "history_upload_complete" /\ log[k].type = "history_batch")
              => k < j

(* Upload-complete went out after two batches, and an acknowledgment       *)
(* beyond those of the two batches was received after it.                  *)
C35_Witness ==
    /\ LogCount("history_upload_complete") = 1
    /\ LogCount("history_batch") = 2
    /\ cl.totalBatchesAcknowledged = 3
    /\ foreign > 0

(* The step is the delivery of a reply to the client's open socket.        *)
ReplyDelivered ==
    /\ cl.wsState = "OPEN"
    /\ s2c # <<>>
    /\ s2c' = Tail(s2c)
    /\ Head(s2c).type \notin {"connected", "history_batch_ack",
                               "history_upload_complete_ack", "chat_queued"}
    /\ Head(s2c).reply # ""
    /\ cl'.wsState # "CLOSED"

(* C36: a history_upload_complete_ack received before the client sent     *)
(* history_upload_complete does not make it send chat, and a reply         *)
(* received before the client sent chat does not settle the promise.       *)
C36_OutOfStateTerminalIgnored ==
    [][ /\ ( /\ Delivered("history_upload_complete_ack", "OPEN")
              /\ ~cl.historyUploadCompleteSent )
            => \A m \in SentNow : m.type # "chat"
        /\ (ReplyDelivered /\ ~cl.chatMessageSent)
            => (cl'.promise = cl.promise /\ cl'.isResolved = cl.isResolved) ]_vars

(* C37: the delivery of a message that is not JSON, or whose type is not   *)
(* recognised and that carries neither reply nor error, changes no session *)
(* variable and sends nothing; the session goes on.                        *)
C37_UnrecognisedMessageNoEffect ==
    [][ ( /\ cl.wsState = "OPEN"
          /\ s2c # <<>>
          /\ Head(s2c) \in IgnoredMessages
          /\ s2c' = Tail(s2c)
          /\ cl'.wsState # "CLOSED" )
        => (cl' = cl /\ log' = log /\ c2s' = c2s) ]_vars

(* Such a message was delivered between the first batch and its            *)
(* acknowledgment, and the session went on to send chat.                   *)
C37_Witness ==
    /\ foreign = 1
    /\ s2c = <<>>
    /\ cl.wsState = "OPEN"
    /\ cl.promise = "pending"
    /\ LogCount("chat") = 1

(* Call k is the one whose result the batch loop takes as the items of its *)
(* partition: the fallback search, or a search that needed no fallback.    *)
PartitionResult(k) ==
    /\ fh.targetMaxResults > CHROME_API_LIMIT
    /\ \/ fh.calls[k].fallback
       \/ (fh.calls[k].ok /\ (fh.calls[k].returned > 0 \/ fh.params.hasText))

(* C38: in the batch loop, once a partition returns fewer items than       *)
(* requested and fewer than 5,000, that search is the last one made and    *)
(* fetchHistory returns the items merged so far.                           *)
C38_EarlyStop ==
    (fh.pc # "idle") =>
        \A k \in DOMAIN fh.calls :
            ( /\ PartitionResult(k)
              /\ fh.calls[k].returned < fh.calls[k].query.maxResults
              /\ fh.calls[k].returned < EXHAUSTED_BELOW )
            => ( /\ k = Len(fh.calls)
                 /\ fh.pc = "done"
                 /\ fh.outcome = "returned"
                 /\ fh.historyItems = fh.allHistoryItems )

(* The first of two sub-windows returned one item of a history of three:   *)
(* the second was not searched and the one item was returned.              *)
C38_Witness ==
    /\ fh.pc = "done"
    /\ fh.source = [kind |-> "store", M |-> 3]
    /\ fh.numBatches = 2
    /\ Len(fh.calls) = 1
    /\ fh.calls[1].returned = 1
    /\ fh.calls[1].ok
    /\ fh.historyItems = <<Item(1, 1)>>

(* fetchHistory at iteration i of its batch loop.                          *)
AtBatch(i) ==
    [fh EXCEPT !.i = i]

(* C39: for a window with start < end and a target above the API limit,    *)
(* the numBatches sub-windows of the batch loop are all searchable (none   *)
(* is empty), start at the window's start, end at its end and each begins  *)
(* where the one before ends, whatever the length of the window.           *)
C39_SubWindowsPartitionWindow ==
    (fh.pc = "loop" /\ fh.i = 0 /\ fh.shouldUseDateRange) =>
        /\ \A i \in 0..(fh.numBatches - 1) : ~InvalidBatchRange(AtBatch(i))
        /\ batchStartTime(AtBatch(0)) = fh.calculatedStartTime
        /\ batchEndTime(AtBatch(fh.numBatches - 1)) = fh.calculatedEndTime
        /\ \A i \in 0..(fh.numBatches - 2) :
              batchEndTime(AtBatch(i)) = batchStartTime(AtBatch(i + 1))
====
